---- MODULE Spec2Model ----
(***************************************************************************)
(* Model of opencontainers/struct.py: StructAttr (one typed attribute) and *)
(* Struct (a named, insertion-ordered collection of attributes that can be *)
(* validated, projected to a dictionary, serialised and loaded).           *)
(***************************************************************************)
EXTENDS Integers, Sequences, FiniteSets, TLC

VARIABLES attrs, op, arg, out

vars == <<attrs, op, arg, out>>

\* ------------------------------------------------------------------------
\* Bounds and input pools
\* ------------------------------------------------------------------------

\* longest list value handed to add / set / validate_type
MaxLen == 1

\* most key/value pairs in a mapping handed to load
MaxKeys == 2

\* ------------------------------------------------------------------------
\* Python values.  Every value has the same four fields so that any two
\* values can be compared: t is the name of the value's class, s the text of
\* a str, n the number of an int / bool (or the size of a dict), e the
\* elements of a list.
\* ------------------------------------------------------------------------

None == [t |-> "NoneType", s |-> "", n |-> 0, e |-> <<>>]

PyStr(x) == [t |-> "str", s |-> x, n |-> 0, e |-> <<>>]

PyInt(x) == [t |-> "int", s |-> "", n |-> x, e |-> <<>>]

PyBool(b) == [t |-> "bool", s |-> "", n |-> IF b THEN 1 ELSE 0, e |-> <<>>]

PyList(xs) == [t |-> "list", s |-> "", n |-> 0, e |-> xs]

PyDict(size) == [t |-> "dict", s |-> "", n |-> size, e |-> <<>>]

\* Python truthiness, as used by "not att.value", "if value:", "if result:"
Truthy(v) ==
    CASE v.t = "NoneType" -> FALSE
      [] v.t = "str"      -> v.s # ""
      [] v.t = "int"      -> v.n # 0
      [] v.t = "bool"     -> v.n # 0
      [] v.t = "list"     -> v.e # <<>>
      [] v.t = "dict"     -> v.n # 0
      [] OTHER            -> TRUE

\* isinstance(value, cls) for a class cls: the value's class is cls or a
\* subclass of it; among the builtin classes bool is the subclass of int.
isinstance(v, cls) == v.t = cls \/ (v.t = "bool" /\ cls = "int")

\* An attType is a class (list = FALSE, of = <<cls>>) or a python list
\* holding classes (list = TRUE, of = the classes inside, possibly none).
Scalar(cls) == [list |-> FALSE, of |-> <<cls>>]

ListOf(clss) == [list |-> TRUE, of |-> clss]

\* What a method call ends in: a returned value, bot.exit, or an exception.
\* A returned dict carries its items (in insertion order) in map; a returned
\* JSON text carries the items it renders.
Return(v, m) == [kind |-> "return", val |-> v, map |-> m]

Exit == [kind |-> "exit", val |-> None, map |-> <<>>]

Raise(exc) == [kind |-> exc, val |-> None, map |-> <<>>]

\* ------------------------------------------------------------------------
\* StructAttr
\* ------------------------------------------------------------------------

StructAttr(name, attType, required, jsonName, omitempty) ==
    [name      |-> name,
     value     |-> None,
     attType   |-> attType,
     required  |-> required,
     jsonName  |-> IF jsonName # "" THEN jsonName ELSE name,
     omitempty |-> omitempty]

validate_type(attType, value) ==
    IF attType.list
    THEN IF value.t # "list"
         THEN FALSE
         ELSE IF attType.of # <<>>
              THEN \A i \in 1..Len(value.e) : isinstance(value.e[i], attType.of[1])
              ELSE TRUE
    ELSE isinstance(value, attType.of[1])

\* the attribute after set(value), and what set returned
set_unchecked(att, value) == [att |-> [att EXCEPT !.value = value], ok |-> TRUE]

set(att, value) ==
    IF validate_type(att.attType, value)
    THEN [att |-> [att EXCEPT !.value = value], ok |-> TRUE]
    ELSE [att |-> att, ok |-> FALSE]

\* ------------------------------------------------------------------------
\* Struct.  a is the attrs dict: a sequence of StructAttr in insertion
\* order, at most one per name.
\* ------------------------------------------------------------------------

NamesOf(a) == {a[i].name : i \in 1..Len(a)}

IndexOf(a, name) == CHOOSE i \in 1..Len(a) : a[i].name = name

newAttr(a, name, attType, required, jsonName, omitempty) ==
    IF name \in NamesOf(a)
    THEN [attrs |-> a, out |-> Exit]
    ELSE [attrs |-> Append(a, StructAttr(name, attType, required, jsonName, omitempty)),
          out   |-> Return(None, <<>>)]

clear_values(a) == [i \in 1..Len(a) |-> [a[i] EXCEPT !.value = None]]

RECURSIVE validate_from(_, _)
validate_from(a, i) ==
    IF i > Len(a)
    THEN Return(PyBool(TRUE), <<>>)
    ELSE IF a[i].required /\ ~Truthy(a[i].value)
         THEN Return(PyBool(FALSE), <<>>)
         ELSE IF a[i].attType.list
              THEN Raise("TypeError")
              ELSE IF ~isinstance(a[i].value, a[i].attType.of[1])
                   THEN Return(PyBool(FALSE), <<>>)
                   ELSE validate_from(a, i + 1)

validate(a) == validate_from(a, 1)

\* d[k] = v on a dict held as a sequence of items
DictSet(d, k, v) ==
    IF \E j \in 1..Len(d) : d[j].k = k
    THEN [j \in 1..Len(d) |-> IF d[j].k = k THEN [k |-> k, v |-> v] ELSE d[j]]
    ELSE Append(d, [k |-> k, v |-> v])

DictKeys(d) == {d[j].k : j \in 1..Len(d)}

DictGet(d, k) == d[CHOOSE j \in 1..Len(d) : d[j].k = k].v

\* lookup.get(att.attType, []) over {str: "", int: None, list: [], dict: {}}
EmptyLookup(attType) ==
    CASE attType.list            -> Raise("TypeError")
      [] attType.of[1] = "str"   -> Return(PyStr(""), <<>>)
      [] attType.of[1] = "int"   -> Return(None, <<>>)
      [] attType.of[1] = "list"  -> Return(PyList(<<>>), <<>>)
      [] attType.of[1] = "dict"  -> Return(PyDict(0), <<>>)
      [] OTHER                   -> Return(PyList(<<>>), <<>>)

RECURSIVE to_dict_from(_, _, _)
to_dict_from(a, i, result) ==
    IF i > Len(a)
    THEN Return(PyDict(Len(result)), result)
    ELSE IF ~Truthy(a[i].value) /\ a[i].omitempty
         THEN to_dict_from(a, i + 1, result)
         ELSE IF ~Truthy(a[i].value)
              THEN LET value == EmptyLookup(a[i].attType)
                   IN  IF value.kind # "return"
                       THEN value
                       ELSE to_dict_from(a, i + 1, DictSet(result, a[i].jsonName, value.val))
              ELSE to_dict_from(a, i + 1, DictSet(result, a[i].jsonName, a[i].value))

to_dict(a) ==
    LET valid == validate(a)
    IN  IF valid.kind # "return"
        THEN valid
        ELSE IF valid.val = PyBool(TRUE)
             THEN to_dict_from(a, 1, <<>>)
             ELSE Return(None, <<>>)

to_json(a) ==
    LET result == to_dict(a)
    IN  IF result.kind # "return"
        THEN result
        ELSE IF Truthy(result.val)
             THEN Return(PyStr("json"), result.map)
             ELSE result

add(a, name, value) ==
    IF name \notin NamesOf(a)
    THEN [attrs |-> a, out |-> Exit]
    ELSE LET i == IndexOf(a, name)
         IN  IF Truthy(value)
             THEN LET r == set(a[i], value)
                  IN  IF ~r.ok
                      THEN [attrs |-> a, out |-> Exit]
                      ELSE [attrs |-> [a EXCEPT ![i] = r.att], out |-> Return(None, <<>>)]
             ELSE [attrs |-> a, out |-> Return(None, <<>>)]

\* jsonName -> position of the attribute it names (the last one declared
\* with that jsonName)
generate_json_lookup(a) ==
    [k \in {a[i].jsonName : i \in 1..Len(a)} |->
        CHOOSE i \in 1..Len(a) :
            /\ a[i].jsonName = k
            /\ \A j \in 1..Len(a) : a[j].jsonName = k => j <= i]

\* the second loop of load: att.set(value) for each item, result ignored
RECURSIVE load_items(_, _, _, _)
load_items(a, lookup, items, j) ==
    IF j > Len(items)
    THEN a
    ELSE LET i == lookup[items[j].k]
         IN  load_items([a EXCEPT ![i] = set(a[i], items[j].v).att], lookup, items, j + 1)

load_clear_first(a, content) ==
    IF content.val.t # "dict"
    THEN [attrs |-> a, out |-> Exit]
    ELSE LET lookup == generate_json_lookup(a)
         IN  IF \E j \in 1..Len(content.map) : content.map[j].k \notin DOMAIN lookup
             THEN [attrs |-> clear_values(a), out |-> Exit]
             ELSE [attrs |-> load_items(clear_values(a), lookup, content.map, 1),
                   out   |-> Return(None, <<>>)]

load(a, content) ==
    IF content.val.t # "dict"
    THEN [attrs |-> a, out |-> Exit]
    ELSE LET lookup == generate_json_lookup(a)
         IN  IF \E j \in 1..Len(content.map) : content.map[j].k \notin DOMAIN lookup
             THEN [attrs |-> a, out |-> Exit]
             ELSE [attrs |-> load_items(clear_values(a), lookup, content.map, 1),
                   out   |-> Return(None, <<>>)]

\* ------------------------------------------------------------------------
\* Inputs
\* ------------------------------------------------------------------------

\* Struct objects of the running program
Instances == {"A", "B"}

\* the fields a schema declares: name and jsonName arguments of newAttr
\* ("" stands for the default jsonName=None)
Fields == {[name |-> "Name", jsonName |-> "name"], [name |-> "Tags", jsonName |-> ""]}

Names == {f.name : f \in Fields}

\* attType arguments
AttTypes == {Scalar("str"), ListOf(<<"str">>)}

Elems == {PyStr("busybox"), PyInt(1)}

SeqsUpTo(S, n) == UNION {[1..m -> S] : m \in 0..n}

Lists == {PyList(xs) : xs \in SeqsUpTo(Elems, MaxLen)}

Scalars == {PyStr(""), PyStr("busybox"), PyInt(1)}

Values == Scalars \cup Lists

\* keys and values of the mappings handed to load
Keys == {"name", "Name", "Tags"}

LoadValues == {PyStr("busybox"), PyList(<<PyStr("busybox")>>)}

Items == {m \in SeqsUpTo([k : Keys, v : LoadValues], MaxKeys) :
            \A i, j \in 1..Len(m) : m[i].k = m[j].k => i = j}

NoArg == [name |-> "", val |-> None, map |-> <<>>]

DictArg(m) == [name |-> "", val |-> PyDict(Len(m)), map |-> m]

Contents == {DictArg(m) : m \in Items} \cup {NoArg}

\* self.attrs: no instance has an attrs of its own, so the lookup ends at the
\* class attribute Struct.attrs
attrsOf(inst) == attrs

\* ------------------------------------------------------------------------
\* Operations
\* ------------------------------------------------------------------------

Init ==
    /\ attrs = <<>>
    /\ op = "init"
    /\ arg = NoArg
    /\ out = Return(None, <<>>)

NewAttr(inst) ==
    \E f \in Fields, attType \in AttTypes, required \in BOOLEAN, omitempty \in BOOLEAN :
        LET r == newAttr(attrsOf(inst), f.name, attType, required, f.jsonName, omitempty)
        IN  /\ attrs' = r.attrs
            /\ op' = "newAttr"
            /\ arg' = [NoArg EXCEPT !.name = f.name]
            /\ out' = r.out

ClearValues(inst) ==
    /\ attrs' = clear_values(attrsOf(inst))
    /\ op' = "clear_values"
    /\ arg' = NoArg
    /\ out' = Return(None, <<>>)

Validate(inst) ==
    /\ out' = validate(attrsOf(inst))
    /\ op' = "validate"
    /\ arg' = NoArg
    /\ UNCHANGED attrs

ToDict(inst) ==
    /\ out' = to_dict(attrsOf(inst))
    /\ op' = "to_dict"
    /\ arg' = NoArg
    /\ UNCHANGED attrs

ToJson(inst) ==
    /\ out' = to_json(attrsOf(inst))
    /\ op' = "to_json"
    /\ arg' = NoArg
    /\ UNCHANGED attrs

Add(inst) ==
    \E name \in Names, value \in Values :
        LET r == add(attrsOf(inst), name, value)
        IN  /\ attrs' = r.attrs
            /\ op' = "add"
            /\ arg' = [name |-> name, val |-> value, map |-> <<>>]
            /\ out' = r.out

Load(inst) ==
    \E content \in Contents :
        LET r == load(attrsOf(inst), content)
        IN  /\ attrs' = r.attrs
            /\ op' = "load"
            /\ arg' = content
            /\ out' = r.out

\* a program that works with one Struct object
Next ==
    \/ NewAttr("A")
    \/ ClearValues("A")
    \/ Validate("A")
    \/ ToDict("A")
    \/ ToJson("A")
    \/ Add("A")
    \/ Load("A")

Spec == Init /\ [][Next]_vars

\* a program that works with several Struct objects
NextShared ==
    \E inst \in Instances :
        \/ NewAttr(inst)
        \/ ClearValues(inst)
        \/ Validate(inst)
        \/ ToDict(inst)
        \/ ToJson(inst)
        \/ Add(inst)
        \/ Load(inst)

SpecShared == Init /\ [][NextShared]_vars

\* ------------------------------------------------------------------------
\* One StructAttr on its own: attrs holds just that attribute
\* ------------------------------------------------------------------------

\* longest list value handed to StructAttr.set / validate_type
MaxElems == 2

AttrTypes ==
    {Scalar(c) : c \in {"str", "int", "bool", "list", "dict"}}
        \cup {ListOf(<<"str">>), ListOf(<<"int">>), ListOf(<<>>)}

AttrValues ==
    {None, PyStr(""), PyStr("busybox"), PyInt(0), PyInt(1), PyInt(5),
     PyBool(TRUE), PyBool(FALSE), PyDict(0), PyDict(1)}
        \cup {PyList(xs) : xs \in SeqsUpTo(Elems \cup {PyInt(2)}, MaxElems)}

InitAttr ==
    /\ \E attType \in AttrTypes : attrs = <<StructAttr("Name", attType, FALSE, "", TRUE)>>
    /\ op = "init"
    /\ arg = NoArg
    /\ out = Return(None, <<>>)

AttrSet ==
    \E value \in AttrValues :
        LET r == set(attrs[1], value)
        IN  /\ attrs' = <<r.att>>
            /\ op' = "set"
            /\ arg' = [NoArg EXCEPT !.val = value]
            /\ out' = Return(PyBool(r.ok), <<>>)

AttrValidateType ==
    \E value \in AttrValues :
        /\ out' = Return(PyBool(validate_type(attrs[1].attType, value)), <<>>)
        /\ op' = "validate_type"
        /\ arg' = [NoArg EXCEPT !.val = value]
        /\ UNCHANGED attrs

NextAttr == AttrSet \/ AttrValidateType

SpecAttr == InitAttr /\ [][NextAttr]_vars

\* ------------------------------------------------------------------------
\* Properties
\* ------------------------------------------------------------------------

WireNames(a) == {a[i].jsonName : i \in 1..Len(a)}

IsMapping(content) == content.val.t = "dict"

HasUnknownKey(a, content) ==
    /\ IsMapping(content)
    /\ \E j \in 1..Len(content.map) : content.map[j].k \notin WireNames(a)

\* C1: a load whose mapping has a key that is no declared wire name ends in
\* the fatal error and leaves every attribute (so every value) as it was
\* before the call, wherever the unknown key stands in the mapping.
C1_UnknownKeyLeavesValues ==
    [][(op' = "load" /\ HasUnknownKey(attrs, arg'))
          => (out'.kind = "exit" /\ attrs' = attrs)]_vars

\* a load has just ended in the fatal error on a mapping whose first key is
\* known and whose second key is unknown, and the record still holds a value
C1_Witness ==
    /\ op = "load"
    /\ out.kind = "exit"
    /\ Len(arg.map) = 2
    /\ arg.map[1].k \in WireNames(attrs)
    /\ arg.map[2].k \notin WireNames(attrs)
    /\ \E i \in 1..Len(attrs) : attrs[i].value # None

TypeInvariant ==
    \A i \in 1..Len(attrs) :
        attrs[i].value = None \/ validate_type(attrs[i].attType, attrs[i].value)

\* an add of a value that fails the type check of the attribute it names
RejectedAdd(a, call) ==
    /\ call.name \in NamesOf(a)
    /\ ~validate_type(a[IndexOf(a, call.name)].attType, call.val)

\* C3: in every reachable state each attribute's value is unset or passes
\* validate_type for its declared type, and an add whose value fails the
\* type check stores nothing and leaves every value as it was.
C3_ValuesMatchTypes ==
    /\ []TypeInvariant
    /\ [][(op' = "add" /\ RejectedAdd(attrs, arg')) => attrs' = attrs]_vars

\* an add of a non-empty value of the wrong type has just been rejected, and
\* the attribute it named still holds its earlier value
C3_Witness ==
    /\ op = "add"
    /\ out.kind = "exit"
    /\ Truthy(arg.val)
    /\ RejectedAdd(attrs, arg)
    /\ attrs[IndexOf(attrs, arg.name)].value # None

\* a record whose values satisfy its declared types and required constraints
SatisfiesConstraints(a) ==
    \A i \in 1..Len(a) :
        /\ a[i].value = None \/ validate_type(a[i].attType, a[i].value)
        /\ a[i].required => Truthy(a[i].value)

\* the record a fresh construction of the same schema gives
Fresh(a) == [i \in 1..Len(a) |-> StructAttr(a[i].name, a[i].attType, a[i].required,
                                            a[i].jsonName, a[i].omitempty)]

OmittedEmpty(att) == ~Truthy(att.value) /\ att.omitempty

RoundTrips(a) ==
    LET projected == to_dict(a)
    IN  /\ projected.kind = "return"
        /\ projected.val.t = "dict"
        /\ LET loaded == load(Fresh(a), [name |-> "", val |-> projected.val, map |-> projected.map])
           IN  /\ loaded.out.kind = "return"
               /\ \A i \in 1..Len(a) :
                    loaded.attrs[i].value = IF OmittedEmpty(a[i]) THEN None ELSE a[i].value

\* C2: for every record whose values satisfy the declared types and required
\* constraints, loading its projection into a fresh record of the same schema
\* gives every attribute its original value, and unset where the attribute
\* was empty and omitted from the projection.
C2_RoundTrip == SatisfiesConstraints(attrs) => RoundTrips(attrs)

\* C4: every step is one instance's operation and leaves the declared names
\* and the values of every other instance as they were.
C4_InstancesOwnAttrs ==
    [][\E inst \in Instances :
          \A other \in Instances \ {inst} : attrsOf(other)' = attrsOf(other)]_vars

RequiredUnset(a) == \E i \in 1..Len(a) : a[i].required /\ a[i].value = None

\* C5: on a record with a required attribute left unset, validate returns
\* False and to_dict returns None, whatever the other attributes are.
C5_RequiredEnforced ==
    /\ (op = "validate" /\ RequiredUnset(attrs)) => out = Return(PyBool(FALSE), <<>>)
    /\ (op = "to_dict" /\ RequiredUnset(attrs)) => out = Return(None, <<>>)

AllUnsetOmitEmpty(a) == \A i \in 1..Len(a) : a[i].value = None /\ a[i].omitempty

\* C6: on a record that has attributes, all of them unset with omitempty,
\* to_dict returns the empty dict and to_json returns None.
C6_EmptyProjection ==
    /\ (op = "to_dict" /\ attrs # <<>> /\ AllUnsetOmitEmpty(attrs))
          => out = Return(PyDict(0), <<>>)
    /\ (op = "to_json" /\ attrs # <<>> /\ AllUnsetOmitEmpty(attrs))
          => out = Return(None, <<>>)

\* a schema of one required str attribute and one optional list-typed
\* attribute with omitempty, just loaded from a mapping that gives only the
\* str attribute's jsonName a non-empty str
LoadedRequiredOnly ==
    /\ op = "load"
    /\ out.kind = "return"
    /\ Len(attrs) = 2
    /\ \E i \in 1..2 :
        /\ attrs[i].attType = Scalar("str") /\ attrs[i].required
        /\ attrs[3 - i].attType.list /\ ~attrs[3 - i].required /\ attrs[3 - i].omitempty
        /\ Len(arg.map) = 1
        /\ arg.map[1].k = attrs[i].jsonName
        /\ arg.map[1].v.t = "str" /\ Truthy(arg.map[1].v)

\* C7: after such a load, to_dict returns exactly the loaded mapping.
C7_LoadThenProject ==
    [][(LoadedRequiredOnly /\ op' = "to_dict")
          => out' = Return(PyDict(1), arg.map)]_vars

\* the rule of the claim: a list whose elements all have class T for a
\* declared [T], a value of class T for a declared T
MatchesExactly(attType, value) ==
    IF attType.list
    THEN value.t = "list" /\ \A i \in 1..Len(value.e) : value.e[i].t = attType.of[1]
    ELSE value.t = attType.of[1]

\* C8: validate_type on a declared [T] or T returns True exactly when the
\* value matches by that rule.
C8_ValidateTypeExact ==
    (op = "validate_type" /\ attrs[1].attType.of # <<>>)
        => out = Return(PyBool(MatchesExactly(attrs[1].attType, arg.val)), <<>>)

\* C9: after a load whose keys are all declared wire names, each attribute
\* whose jsonName is a key holds that key's value and every other is unset.
C9_LoadHoldsContent ==
    (op = "load" /\ out.kind = "return")
        => \A i \in 1..Len(attrs) :
              attrs[i].value = IF attrs[i].jsonName \in DictKeys(arg.map)
                               THEN DictGet(arg.map, attrs[i].jsonName)
                               ELSE None

PassesBothChecks(att) ==
    /\ ~(att.required /\ ~Truthy(att.value))
    /\ validate_type(att.attType, att.value)

\* C10: validate returns a boolean for every record, True exactly when every
\* attribute is not (required and empty) and its value passes validate_type.
C10_ValidateDecides ==
    op = "validate"
        => out = Return(PyBool(\A i \in 1..Len(attrs) : PassesBothChecks(attrs[i])), <<>>)

====
